---- MODULE Spec2Model ----
(***************************************************************************)
(* Model of src/main.py: the "Smart Entity Extraction Microservice".       *)
(*                                                                         *)
(* Python strings are TLA+ strings; Len, SubSeq and \o act on them         *)
(* character by character.  A TLA+ string literal cannot contain the       *)
(* backquote, so the backquote character of a markdown code fence is       *)
(* written "~" throughout (BT); no other character is renamed.             *)
(***************************************************************************)
EXTENDS Integers, Sequences, FiniteSets, TLC

(***************************************************************************)
(* Bounds of the model (not program constants).                            *)
(***************************************************************************)
MaxSpans == 8      \* number of spans of the analysed document (doc.ents)
MaxElems == 8      \* number of elements the completion model may emit

(***************************************************************************)
(* String helpers: str.strip(), str.lower(), slicing.                      *)
(***************************************************************************)
Char(s, i) == SubSeq(s, i, i)

BT == "~"

Min(S) == CHOOSE x \in S : \A y \in S : x <= y
Max(S) == CHOOSE x \in S : \A y \in S : x >= y

\* the whitespace str.strip() removes, restricted to the characters drawn
IsSpace(c) == c \in {" ", "\t", "\n", "\r"}

\* str.strip()
Strip(s) ==
    LET idx == {i \in 1..Len(s) : ~IsSpace(Char(s, i))}
    IN  IF idx = {} THEN "" ELSE SubSeq(s, Min(idx), Max(idx))

UpperChars == "ABCDEFGHIJKLMNOPQRSTUVWXYZ"
LowerChars == "abcdefghijklmnopqrstuvwxyz"

LowerChar(c) ==
    IF \E i \in 1..26 : Char(UpperChars, i) = c
    THEN Char(LowerChars, CHOOSE i \in 1..26 : Char(UpperChars, i) = c)
    ELSE c

RECURSIVE Lower(_)
\* str.lower()
Lower(s) ==
    IF s = "" THEN "" ELSE LowerChar(Char(s, 1)) \o Lower(SubSeq(s, 2, Len(s)))

\* list[:n]
Take(seq, n) == SubSeq(seq, 1, IF Len(seq) < n THEN Len(seq) ELSE n)

RECURSIVE DedupeFrom(_, _, _)
DedupeFrom(vals, seen, deduped) ==
    IF vals = <<>> THEN deduped
    ELSE IF Head(vals) \notin seen
         THEN DedupeFrom(Tail(vals), seen \cup {Head(vals)}, Append(deduped, Head(vals)))
         ELSE DedupeFrom(Tail(vals), seen, deduped)

\* order-preserving dedupe: the seen/deduped loop of extract_entities and
\* list(dict.fromkeys(...)) of generate_tags_with_groq
Dedupe(vals) == DedupeFrom(vals, {}, <<>>)

(***************************************************************************)
(* re.sub(r"^```(?:json)?|```$", "", content), line 109.  No flags are     *)
(* given: ^ matches at the start of the string only, $ at the end of the   *)
(* string or just before a final newline.  The scan is one left-to-right   *)
(* pass over non-overlapping matches.                                      *)
(***************************************************************************)
StartsWithAt(s, i, p) == i + Len(p) - 1 <= Len(s) /\ SubSeq(s, i, i + Len(p) - 1) = p

Fence == BT \o BT \o BT

\* mutant: the json tag of the opening fence is not part of the pattern
OpenFenceEnd_NoTag(s) == IF ~StartsWithAt(s, 1, Fence) THEN 0 ELSE 3

\* the end of the match of ^```(?:json)? at the start of s (0: no match)
OpenFenceEnd(s) ==
    IF ~StartsWithAt(s, 1, Fence) THEN 0
    ELSE IF StartsWithAt(s, 4, "json") THEN 7 ELSE 3

\* does $ match right after position e of s
AtDollar(s, e) == e = Len(s) \/ (e = Len(s) - 1 /\ Char(s, Len(s)) = "\n")

\* the start positions of the matches of ```$ that begin after position from
CloseFenceStarts(s, from) ==
    {i \in (from + 1)..Len(s) : StartsWithAt(s, i, Fence) /\ AtDollar(s, i + 2)}

StripFences(s) ==
    LET o  == OpenFenceEnd(s)
        cs == CloseFenceStarts(s, o)
    IN  IF cs = {} THEN SubSeq(s, o + 1, Len(s))
        ELSE LET c == Min(cs)
             IN  SubSeq(s, o + 1, c - 1) \o SubSeq(s, c + 3, Len(s))

(***************************************************************************)
(* json.loads, line 111: the standard decoder (scan_once, JSONArray,       *)
(* JSONObject, scanstring in strict mode).  A result is a record           *)
(* [ok, v, nx]: whether a value was decoded, the value, and the index      *)
(* after it.  A value is [t, s, items]: its Python type, the text of a     *)
(* str, the elements of a list.  Numbers are integers with an optional     *)
(* fraction; the escapes \b, \f and \uXXXX are not in the model's          *)
(* alphabet.                                                               *)
(***************************************************************************)
Val(t, s, items) == [t |-> t, s |-> s, items |-> items]
Ok(v, nx) == [ok |-> TRUE, v |-> v, nx |-> nx]
Fail == [ok |-> FALSE, v |-> Val("none", "", <<>>), nx |-> 0]

IsJsonWs(c) == c \in {" ", "\t", "\n", "\r"}
IsDigit(c) == c \in {"0", "1", "2", "3", "4", "5", "6", "7", "8", "9"}

\* WHITESPACE.match(s, i).end(): the first index >= i that is not whitespace
SkipWs(s, i) ==
    LET rest == {j \in i..Len(s) : ~IsJsonWs(Char(s, j))}
    IN  IF rest = {} THEN (IF i > Len(s) THEN i ELSE Len(s) + 1) ELSE Min(rest)

\* the first index >= i that is not a digit
SkipDigits(s, i) ==
    LET rest == {j \in i..Len(s) : ~IsDigit(Char(s, j))}
    IN  IF rest = {} THEN (IF i > Len(s) THEN i ELSE Len(s) + 1) ELSE Min(rest)

RECURSIVE ScanString(_, _, _)
\* py_scanstring after the opening quote, strict: control characters fail
ScanString(s, i, acc) ==
    IF i > Len(s) THEN Fail
    ELSE LET c == Char(s, i) IN
         IF c = "\"" THEN Ok(Val("str", acc, <<>>), i + 1)
         ELSE IF c = "\\"
              THEN IF i + 1 > Len(s) THEN Fail
                   ELSE LET e == Char(s, i + 1) IN
                        IF e \in {"\"", "\\", "/"} THEN ScanString(s, i + 2, acc \o e)
                        ELSE IF e = "n" THEN ScanString(s, i + 2, acc \o "\n")
                        ELSE IF e = "t" THEN ScanString(s, i + 2, acc \o "\t")
                        ELSE IF e = "r" THEN ScanString(s, i + 2, acc \o "\r")
                        ELSE Fail
              ELSE IF c \in {"\n", "\t", "\r"} THEN Fail
              ELSE ScanString(s, i + 1, acc \o c)

\* NUMBER_RE: -?(0|[1-9]\d*)(\.\d+)?
ScanNumber(s, i) ==
    LET d == IF StartsWithAt(s, i, "-") THEN i + 1 ELSE i
    IN  IF d > Len(s) \/ ~IsDigit(Char(s, d)) THEN Fail
        ELSE LET e == IF Char(s, d) = "0" THEN d + 1 ELSE SkipDigits(s, d)
                 f == IF StartsWithAt(s, e, ".") /\ e + 1 <= Len(s) /\ IsDigit(Char(s, e + 1))
                      THEN SkipDigits(s, e + 1) ELSE e
             IN  Ok(Val("num", "", <<>>), f)

RECURSIVE ScanOnce(_, _), ScanArrayItems(_, _, _), ScanObjectItems(_, _)

\* JSONArray after "[", at the first element
ScanArrayItems(s, i, acc) ==
    LET r == ScanOnce(s, i) IN
    IF ~r.ok THEN Fail
    ELSE LET j == SkipWs(s, r.nx) IN
         IF j > Len(s) THEN Fail
         ELSE IF Char(s, j) = "]" THEN Ok(Val("list", "", Append(acc, r.v)), j + 1)
         ELSE IF Char(s, j) # "," THEN Fail
         ELSE ScanArrayItems(s, SkipWs(s, j + 1), Append(acc, r.v))

\* JSONObject after "{", at the first key
ScanObjectItems(s, i) ==
    IF ~StartsWithAt(s, i, "\"") THEN Fail
    ELSE LET k == ScanString(s, i + 1, "") IN
         IF ~k.ok THEN Fail
         ELSE LET c == SkipWs(s, k.nx) IN
              IF ~StartsWithAt(s, c, ":") THEN Fail
              ELSE LET r == ScanOnce(s, SkipWs(s, c + 1)) IN
                   IF ~r.ok THEN Fail
                   ELSE LET j == SkipWs(s, r.nx) IN
                        IF j > Len(s) THEN Fail
                        ELSE IF Char(s, j) = "}" THEN Ok(Val("dict", "", <<>>), j + 1)
                        ELSE IF Char(s, j) # "," THEN Fail
                        ELSE ScanObjectItems(s, SkipWs(s, j + 1))

\* scan_once: one JSON value starting at index i
ScanOnce(s, i) ==
    IF i > Len(s) THEN Fail
    ELSE LET c == Char(s, i) IN
         IF c = "\"" THEN ScanString(s, i + 1, "")
         ELSE IF c = "{"
              THEN LET j == SkipWs(s, i + 1) IN
                   IF StartsWithAt(s, j, "}") THEN Ok(Val("dict", "", <<>>), j + 1)
                   ELSE ScanObjectItems(s, j)
         ELSE IF c = "["
              THEN LET j == SkipWs(s, i + 1) IN
                   IF StartsWithAt(s, j, "]") THEN Ok(Val("list", "", <<>>), j + 1)
                   ELSE ScanArrayItems(s, j, <<>>)
         ELSE IF StartsWithAt(s, i, "null") THEN Ok(Val("NoneType", "", <<>>), i + 4)
         ELSE IF StartsWithAt(s, i, "true") THEN Ok(Val("bool", "", <<>>), i + 4)
         ELSE IF StartsWithAt(s, i, "false") THEN Ok(Val("bool", "", <<>>), i + 5)
         ELSE IF ScanNumber(s, i).ok THEN ScanNumber(s, i)
         ELSE IF StartsWithAt(s, i, "NaN") THEN Ok(Val("float", "", <<>>), i + 3)
         ELSE IF StartsWithAt(s, i, "Infinity") THEN Ok(Val("float", "", <<>>), i + 8)
         ELSE IF StartsWithAt(s, i, "-Infinity") THEN Ok(Val("float", "", <<>>), i + 9)
         ELSE Fail

\* json.loads(s): one value, whitespace around it, nothing else
json_loads(s) ==
    LET r == ScanOnce(s, SkipWs(s, 1)) IN
    IF r.ok /\ SkipWs(s, r.nx) = Len(s) + 1 THEN r ELSE Fail

(***************************************************************************)
(* generate_tags_with_groq, lines 106-119: from the completion content to  *)
(* the tag list.                                                           *)
(***************************************************************************)
max_tags == 5

FailedTags == <<"tag extraction failed">>

\* mutant: the duplicates are not removed
NormaliseTags_NoDedupe(items, n) ==
    Take([i \in 1..Len(items) |-> Strip(Lower(items[i].s))], n)

\* mutant: the elements are not lowercased
NormaliseTags_NoLower(items, n) ==
    Take(Dedupe([i \in 1..Len(items) |-> Strip(items[i].s)]), n)

\* lines 112-115: the list of strings, lowercased, trimmed, deduplicated, cut
NormaliseTags(items, n) ==
    Take(Dedupe([i \in 1..Len(items) |-> Strip(Lower(items[i].s))]), n)

\* the outcome of a call: a returned value or a raised exception
Returned(v) == [raised |-> FALSE, value |-> v]
Raised == [raised |-> TRUE, value |-> <<>>]

(***************************************************************************)
(* The permissive recovery of the specification (4.3, step 3), which       *)
(* main.py does not have: strip an outer bracket pair, split on commas,    *)
(* trim each piece, strip surrounding quote characters, drop empty pieces, *)
(* cut to n.                                                               *)
(***************************************************************************)
StripBrackets(s) ==
    IF Len(s) >= 2 /\ Char(s, 1) = "[" /\ Char(s, Len(s)) = "]"
    THEN SubSeq(s, 2, Len(s) - 1) ELSE s

RECURSIVE SplitCommas(_)
SplitCommas(s) ==
    LET cs == {i \in 1..Len(s) : Char(s, i) = ","}
    IN  IF cs = {} THEN <<s>>
        ELSE <<SubSeq(s, 1, Min(cs) - 1)>> \o SplitCommas(SubSeq(s, Min(cs) + 1, Len(s)))

StripQuotes(s) ==
    LET idx == {i \in 1..Len(s) : Char(s, i) \notin {"\"", "'"}}
    IN  IF idx = {} THEN "" ELSE SubSeq(s, Min(idx), Max(idx))

RECURSIVE DropEmpty(_)
DropEmpty(seq) ==
    IF seq = <<>> THEN <<>>
    ELSE IF Head(seq) = "" THEN DropEmpty(Tail(seq))
    ELSE <<Head(seq)>> \o DropEmpty(Tail(seq))

PermissiveRecover(s, n) ==
    LET pieces == SplitCommas(StripBrackets(Strip(s)))
    IN  Take(DropEmpty([i \in 1..Len(pieces) |-> StripQuotes(Strip(pieces[i]))]), n)

\* mutant: the parser falls back to the permissive recovery
ParseContent_Permissive(content, n) ==
    LET cleaned == Strip(StripFences(Strip(content)))
        r == json_loads(cleaned)
    IN  IF r.ok /\ r.v.t = "list" /\ \A i \in 1..Len(r.v.items) : r.v.items[i].t = "str"
        THEN Returned(NormaliseTags(r.v.items, n))
        ELSE Returned(PermissiveRecover(cleaned, n))

\* mutant: no except clause, a parse failure propagates
ParseContent_NoCatch(content, n) ==
    LET cleaned == Strip(StripFences(Strip(content)))
        r == json_loads(cleaned)
    IN  IF r.ok /\ r.v.t = "list" /\ \A i \in 1..Len(r.v.items) : r.v.items[i].t = "str"
        THEN Returned(NormaliseTags(r.v.items, n))
        ELSE Raised

\* lines 106-119: every exception of the try block, json.loads' and the
\* ValueError of line 117, is caught at line 118 and answered by line 119
ParseContent(content, n) ==
    LET cleaned == Strip(StripFences(Strip(content)))
        r == json_loads(cleaned)
    IN  IF r.ok /\ r.v.t = "list" /\ \A i \in 1..Len(r.v.items) : r.v.items[i].t = "str"
        THEN Returned(NormaliseTags(r.v.items, n))
        ELSE Returned(FailedTags)

(***************************************************************************)
(* extract_entities, lines 35-47.  nlp(text) is the external spaCy         *)
(* pipeline: doc.ents is a sequence of spans [text, label].                *)
(***************************************************************************)
wanted == {"PERSON", "ORG", "GPE", "LOC", "DATE", "EVENT", "PRODUCT", "NORP"}

RECURSIVE SelectWanted(_)
\* line 39: [ent.text.strip() for ent in doc.ents if ent.label_ in wanted]
SelectWanted(ents) ==
    IF ents = <<>> THEN <<>>
    ELSE IF Head(ents).label \in wanted
         THEN <<Strip(Head(ents).text)>> \o SelectWanted(Tail(ents))
         ELSE SelectWanted(Tail(ents))

RECURSIVE WantedRaw(_)
WantedRaw(ents) ==
    IF ents = <<>> THEN <<>>
    ELSE IF Head(ents).label \in wanted
         THEN <<Head(ents).text>> \o WantedRaw(Tail(ents))
         ELSE WantedRaw(Tail(ents))

\* mutant: the spans are deduplicated before they are trimmed
extract_entities_DedupeRaw(ents) ==
    LET raw == Dedupe(WantedRaw(ents))
    IN  [i \in 1..Len(raw) |-> Strip(raw[i])]

extract_entities(ents) == Dedupe(SelectWanted(ents))

\* mutant: one entity fewer
FallbackTags_Four(ents) == Take(ents, 4)

\* line 133: entities[:5]
FallbackTags(ents) == Take(ents, 5)

(***************************************************************************)
(* The environment: the process environment, the request bodies, what the  *)
(* spaCy pipeline finds and what the completion service answers.           *)
(***************************************************************************)
\* os.getenv("GROQ_API_KEY"): None when the variable is not set
None == "<None>"
EnvKeys == {None, "", "gsk_live"}

\* "if not GROQ_API_KEY", line 51
Falsy(key) == key = None \/ key = ""

Payloads == {"", " \n\t ", "  Apple met Acme Corp \n"}

Span(text, label) == [text |-> text, label |-> label]

\* the i-th span of the analysed document
DocSpan(i) ==
    CASE i = 1 -> Span("John Doe", "PERSON")
      [] i = 2 -> Span("Acme Corp", "ORG")
      [] i = 3 -> Span(" John Doe\n", "PERSON")
      [] i = 4 -> Span("three", "CARDINAL")
      [] i = 5 -> Span("New York", "GPE")
      [] i = 6 -> Span("July 20", "DATE")
      [] i = 7 -> Span("Apple", "ORG")
      [] i = 8 -> Span("iPhone 16", "PRODUCT")
      [] i = 9 -> Span("Acme Corp", "ORG")
      [] OTHER -> Span("Sarah", "PERSON")

Document == [i \in 1..MaxSpans |-> DocSpan(i)]

\* what nlp(text) may return as doc.ents: any stretch of the document
DocEnts == {SubSeq(Document, i, j) : i \in 1..MaxSpans, j \in 0..MaxSpans}

\* the i-th string the completion model may put in its array
ModelElem(i) ==
    CASE i = 1 -> "a"
      [] i = 2 -> "b"
      [] i = 3 -> "news"
      [] i = 4 -> "news"
      [] i = 5 -> "update"
      [] i = 6 -> " Update"
      [] i = 7 -> "biz trip"
      [] i = 8 -> "meeting"
      [] i = 9 -> "NEWS "
      [] OTHER -> "travel"

ModelElems == [i \in 1..MaxElems |-> ModelElem(i)]

ElemLists == {SubSeq(ModelElems, i, j) : i \in 1..MaxElems, j \in 0..MaxElems}

RECURSIVE Join(_, _)
\* the JSON text of the elements of an array, separated by sep
Join(elems, sep) ==
    IF elems = <<>> THEN ""
    ELSE IF Len(elems) = 1 THEN "\"" \o Head(elems) \o "\""
    ELSE "\"" \o Head(elems) \o "\"" \o sep \o Join(Tail(elems), sep)

RenderArray(elems, sep) == "[" \o Join(elems, sep) \o "]"

\* what the model may write around its answer: nothing, a code fence
\* (tagged json or not), a fence with whitespace around it
Wrappers ==
    { [pre |-> "", post |-> "", fenced |-> FALSE],
      [pre |-> Fence \o "json\n", post |-> "\n" \o Fence, fenced |-> TRUE],
      [pre |-> Fence \o "\n", post |-> "\n" \o Fence, fenced |-> TRUE],
      [pre |-> " \n" \o Fence \o "json \n", post |-> " " \o Fence \o "\n ", fenced |-> TRUE] }

\* answers that are not a JSON array of strings
OtherBodies ==
    { [kind |-> "loose", body |-> "[biz trip, meeting]"],
      [kind |-> "loose", body |-> "[\"a\", \"b\",]"],
      [kind |-> "prose", body |-> "not a list at all"],
      [kind |-> "prose", body |-> "Tags: [\"a\"]"],
      [kind |-> "prose", body |-> ""],
      [kind |-> "json", body |-> "[\"a\", 7]"],
      [kind |-> "json", body |-> "{\"tags\": [\"a\"]}"],
      [kind |-> "json", body |-> "\"news\""] }

Reply(kind, elems, body, w) ==
    [kind |-> kind, elems |-> elems, body |-> body, pre |-> w.pre, post |-> w.post,
     fenced |-> w.fenced]

NoReply == Reply("none", <<>>, "", [pre |-> "", post |-> "", fenced |-> FALSE])

Replies ==
    {Reply("array", e, RenderArray(e, sep), w) : e \in ElemLists, sep \in {",", ", "}, w \in Wrappers}
    \cup {Reply(b.kind, <<>>, b.body, w) : b \in OtherBodies, w \in Wrappers}

\* response.choices[0].message.content of a reply
ContentOf(r) == r.pre \o r.body \o r.post

\* the ways the completion call yields no content: the create call raises
\* (connection, timeout, API status), choices is empty, content is None
Failures == {"api_error", "no_choices", "content_none"}

(***************************************************************************)
(* State.                                                                  *)
(***************************************************************************)
VARIABLES
    GROQ_API_KEY,     \* line 13
    spacy_installed,  \* whether spacy.load("en_core_web_sm") finds the model
    proc,             \* "boot", "running" or "crashed"
    pc,               \* where extract_endpoint is in the request
    payload,          \* payload.text
    text,             \* line 124
    doc_ents,         \* doc.ents of line 37
    entities,         \* line 128
    nlp_calls,        \* calls of nlp in this request
    calls,            \* calls of chat.completions.create in this request
    outcome,          \* how generate_tags_with_groq ended
    reply,            \* what the completion service answered
    content,          \* line 106, before the strip
    tags,             \* lines 130, 133
    status,           \* HTTP status of the response, 0 before it
    response          \* the 200 payload

vars == <<GROQ_API_KEY, spacy_installed, proc, pc, payload, text, doc_ents, entities,
          nlp_calls, calls, outcome, reply, content, tags, status, response>>

env == <<GROQ_API_KEY, spacy_installed>>
request == <<payload, text, doc_ents, entities, nlp_calls, calls, outcome, reply,
             content, tags, status, response>>

NoResponse == [entities |-> <<>>, tags |-> <<>>, meta |-> [len_text |-> 0], sent |-> FALSE]

FreshRequest(p) ==
    /\ payload' = p
    /\ text' = ""
    /\ doc_ents' = <<>>
    /\ entities' = <<>>
    /\ nlp_calls' = 0
    /\ calls' = 0
    /\ outcome' = "none"
    /\ reply' = NoReply
    /\ content' = ""
    /\ tags' = <<>>
    /\ status' = 0
    /\ response' = NoResponse

Init ==
    /\ GROQ_API_KEY \in EnvKeys
    /\ spacy_installed \in BOOLEAN
    /\ proc = "boot"
    /\ pc = "Idle"
    /\ payload = ""
    /\ text = ""
    /\ doc_ents = <<>>
    /\ entities = <<>>
    /\ nlp_calls = 0
    /\ calls = 0
    /\ outcome = "none"
    /\ reply = NoReply
    /\ content = ""
    /\ tags = <<>>
    /\ status = 0
    /\ response = NoResponse

(***************************************************************************)
(* Module import, lines 12-25.  Groq(api_key=None) finds no key in the     *)
(* environment either (line 13 read the same variable) and the groq SDK's  *)
(* constructor raises GroqError; a missing spaCy model raises the          *)
(* RuntimeError of line 21.  Either exception ends the import.             *)
(***************************************************************************)
GroqConstructs(key) == key # None

LoadModule ==
    /\ proc = "boot"
    /\ proc' = IF GroqConstructs(GROQ_API_KEY) /\ spacy_installed THEN "running" ELSE "crashed"
    /\ UNCHANGED <<env, pc, request>>

(***************************************************************************)
(* extract_endpoint, lines 122-134, one action per stage.                  *)
(***************************************************************************)
Terminal == {"Responded", "InvalidInput"}

\* a POST /extract arrives (one request at a time is followed)
Receive(p) ==
    /\ proc = "running"
    /\ pc \in {"Idle"} \cup Terminal
    /\ pc' = "Start"
    /\ FreshRequest(p)
    /\ UNCHANGED <<env, proc>>

\* mutant: the text is not trimmed
TrimmedText_Raw(p) == p

\* line 124
TrimmedText(p) == Strip(p)

\* lines 124-128: trim, reject empty text, else extract the entities
Validate(ents) ==
    /\ pc = "Start"
    /\ text' = TrimmedText(payload)
    /\ IF text' = ""
       THEN /\ pc' = "InvalidInput"
            /\ status' = 400
            /\ UNCHANGED <<doc_ents, entities, nlp_calls>>
       ELSE /\ pc' = "EntitiesExtracted"
            /\ doc_ents' = ents
            /\ nlp_calls' = nlp_calls + 1
            /\ entities' = extract_entities(ents)
            /\ UNCHANGED status
    /\ UNCHANGED <<env, proc, payload, calls, outcome, reply, content, tags, response>>

\* line 130: generate_tags_with_groq is entered
RequestTags ==
    /\ pc = "EntitiesExtracted"
    /\ pc' = "TagsRequested"
    /\ UNCHANGED <<env, proc, request>>

\* lines 51-52 raise, lines 131-133 catch
ConfigError ==
    /\ pc = "TagsRequested"
    /\ Falsy(GROQ_API_KEY)
    /\ outcome' = "config_error"
    /\ tags' = FallbackTags(entities)
    /\ pc' = "TagsFallback"
    /\ UNCHANGED <<env, proc, payload, text, doc_ents, entities, nlp_calls, calls, reply,
                   content, status, response>>

\* mutant: a failed call is tried again
CompletionFails_Retry(f) ==
    /\ pc = "TagsRequested"
    /\ ~Falsy(GROQ_API_KEY)
    /\ calls < 2
    /\ calls' = calls + 1
    /\ outcome' = f
    /\ IF calls' < 2
       THEN UNCHANGED <<pc, tags>>
       ELSE tags' = FallbackTags(entities) /\ pc' = "TagsFallback"
    /\ UNCHANGED <<env, proc, payload, text, doc_ents, entities, nlp_calls, reply,
                   content, status, response>>

\* lines 97-106 raise (the call, choices[0] or None.strip()), lines 131-133 catch
CompletionFails(f) ==
    /\ pc = "TagsRequested"
    /\ ~Falsy(GROQ_API_KEY)
    /\ calls' = calls + 1
    /\ outcome' = f
    /\ tags' = FallbackTags(entities)
    /\ pc' = "TagsFallback"
    /\ UNCHANGED <<env, proc, payload, text, doc_ents, entities, nlp_calls, reply,
                   content, status, response>>

\* lines 97-119: the call returns content, which is parsed
CompletionReturns(r) ==
    /\ pc = "TagsRequested"
    /\ ~Falsy(GROQ_API_KEY)
    /\ calls' = calls + 1
    /\ reply' = r
    /\ content' = ContentOf(r)
    /\ LET res == ParseContent(content', max_tags)
       IN  IF res.raised
           THEN /\ outcome' = "parse_error"
                /\ tags' = FallbackTags(entities)
                /\ pc' = "TagsFallback"
           ELSE /\ outcome' = "parsed"
                /\ tags' = res.value
                /\ pc' = "TagsParsed"
    /\ UNCHANGED <<env, proc, payload, text, doc_ents, entities, nlp_calls, status, response>>

\* line 134
Respond ==
    /\ pc \in {"TagsParsed", "TagsFallback"}
    /\ pc' = "Responded"
    /\ status' = 200
    /\ response' = [entities |-> entities, tags |-> tags,
                    meta |-> [len_text |-> Len(text)], sent |-> TRUE]
    /\ UNCHANGED <<env, proc, payload, text, doc_ents, entities, nlp_calls, calls, outcome,
                   reply, content, tags>>

Next ==
    \/ LoadModule
    \/ \E p \in Payloads : Receive(p)
    \/ \E ents \in DocEnts : Validate(ents)
    \/ RequestTags
    \/ ConfigError
    \/ \E f \in Failures : CompletionFails(f)
    \/ \E r \in Replies : CompletionReturns(r)
    \/ Respond

Spec == Init /\ [][Next]_vars

\* every stage of the handler runs to its end: the code between two stages
\* is straight-line, and the completion client returns or raises
LiveSpec == Spec /\ WF_vars(Next)

(***************************************************************************)
(* Properties.                                                             *)
(***************************************************************************)
NoDuplicates(seq) == \A i, j \in 1..Len(seq) : i # j => seq[i] # seq[j]

IsPrefixOfLength(t, seq, n) ==
    /\ Len(t) = (IF Len(seq) < n THEN Len(seq) ELSE n)
    /\ \A i \in 1..Len(t) : t[i] = seq[i]

IsBlank(s) == \A i \in 1..Len(s) : IsSpace(Char(s, i))

Answered == pc \in {"TagsParsed", "Responded"}

ServiceFailures == {"config_error", "api_error", "no_choices", "content_none"}

\* C1: a request whose text is not empty after trimming ends, whatever the
\* completion service did, in a 200 response whose tags hold no string twice
\* and number at most max_tags
C1_ValidTextAnswered200 ==
    (pc \in Terminal /\ ~IsBlank(payload)) =>
        /\ pc = "Responded"
        /\ status = 200
        /\ response.sent
        /\ NoDuplicates(response.tags)
        /\ Len(response.tags) <= max_tags

C1_Witness ==
    /\ pc = "Responded"
    /\ outcome = "parsed"
    /\ Len(reply.elems) = 8
    /\ Len(response.tags) = 5

\* C2: when generate_tags_with_groq raises (remote error, unusable payload,
\* missing credential) the tags are the first min(5, len(entities)) entities
\* in order, and the response is 200
C2_FallbackIsEntityPrefix ==
    (outcome \in ServiceFailures) =>
        /\ pc \in {"TagsFallback", "Responded"}
        /\ IsPrefixOfLength(tags, entities, 5)
        /\ pc = "Responded" =>
              /\ status = 200
              /\ response.entities = entities
              /\ IsPrefixOfLength(response.tags, response.entities, 5)

C2_Witness ==
    /\ pc = "Responded"
    /\ outcome = "api_error"
    /\ Len(response.entities) = 6
    /\ Len(response.tags) = 5

\* C3: a request whose text is empty after trimming ends in HTTP 400 whatever
\* the credential is; neither nlp nor the completion service is called and no
\* 200 payload is produced
C3_BlankTextRejected ==
    (IsBlank(payload) /\ pc \notin {"Idle", "Start"}) =>
        /\ pc = "InvalidInput"
        /\ status = 400
        /\ nlp_calls = 0
        /\ calls = 0
        /\ ~response.sent

C3_Witness ==
    /\ pc = "InvalidInput"
    /\ payload = " \n\t "
    /\ GROQ_API_KEY = ""
    /\ status = 400

\* each element lowercased and trimmed
Normalised(elems) == [i \in 1..Len(elems) |-> Strip(Lower(elems[i]))]

\* the positions holding the first occurrence of their value
FirstOccurrences(seq) == {i \in 1..Len(seq) : \A j \in 1..(i - 1) : seq[j] # seq[i]}

\* t is seq without its repeats, cut to n elements
IsDedupedPrefix(t, seq, n) ==
    LET F == FirstOccurrences(seq) IN
    /\ Len(t) = (IF Cardinality(F) < n THEN Cardinality(F) ELSE n)
    /\ \A k \in 1..Len(t) :
          \E i \in F : Cardinality({j \in F : j <= i}) = k /\ t[k] = seq[i]

\* C4: when the content is (inside its fence) a JSON array of strings, the
\* tags are its elements lowercased and trimmed, without repeats (first
\* occurrence kept), cut to max_tags; so ["news","news","update"] gives
\* ["news","update"] and ["biz trip", "meeting"] is returned unchanged
C4_ArrayNormalised ==
    (Answered /\ reply.kind = "array") =>
        /\ IsDedupedPrefix(tags, Normalised(reply.elems), max_tags)
        /\ content = "[\"news\",\"news\",\"update\"]" => tags = <<"news", "update">>
        /\ content = "[\"biz trip\", \"meeting\"]" => tags = <<"biz trip", "meeting">>
        /\ (/\ Normalised(reply.elems) = reply.elems
            /\ NoDuplicates(reply.elems)
            /\ Len(reply.elems) <= max_tags) => tags = reply.elems

C4_Witness ==
    /\ pc = "Responded"
    /\ content = "[\"news\",\"news\",\"update\"]"
    /\ response.tags = <<"news", "update">>

\* C5: a code fence (tagged json or not, with whitespace around it) around an
\* array gives the tags of the bare array; the fenced ["a","b"] gives
\* ["a","b"]
C5_FenceTransparent ==
    (Answered /\ reply.kind = "array" /\ reply.fenced) =>
        /\ tags = ParseContent(reply.body, max_tags).value
        /\ content = Fence \o "json\n[\"a\",\"b\"]\n" \o Fence => tags = <<"a", "b">>

C5_Witness ==
    /\ pc = "Responded"
    /\ content = Fence \o "json\n[\"a\",\"b\"]\n" \o Fence
    /\ response.tags = <<"a", "b">>

\* C6, as first stated: content that is not valid JSON but has bracket and
\* comma structure yields the pieces the permissive recovery finds
C6_PermissiveRecovery ==
    (Answered /\ reply.kind = "loose") => tags = PermissiveRecover(reply.body, max_tags)

\* C6, amended: there is no permissive recovery; content that is not valid
\* JSON yields the sentinel even when brackets and commas would allow a
\* recovery, so [biz trip, meeting] gives ["tag extraction failed"]
C6_NoPermissiveRecovery ==
    (Answered /\ reply.kind = "loose") =>
        /\ tags = FailedTags
        /\ PermissiveRecover(reply.body, max_tags) # FailedTags

C6_Witness ==
    /\ pc = "Responded"
    /\ content = "[biz trip, meeting]"
    /\ response.tags = FailedTags

\* C7: content that cannot be parsed into tags (prose, or JSON that is not
\* an array of strings) raises nothing: the tags are the sentinel, the
\* response is 200 and the entities are not used as tags
C7_MalformedGivesSentinel ==
    (reply.kind \in {"prose", "json"}) =>
        /\ Answered
        /\ outcome = "parsed"
        /\ tags = FailedTags
        /\ pc = "Responded" => (status = 200 /\ response.tags = FailedTags)

C7_Witness ==
    /\ pc = "Responded"
    /\ content = "not a list at all"
    /\ Len(entities) > 0
    /\ response.tags = FailedTags

\* C8: without GROQ_API_KEY in the environment the process still starts and
\* serves: tag generation fails before any completion call, the request is
\* answered 200 with the first five entities as tags
C8_MissingCredentialServes ==
    (GROQ_API_KEY = None /\ spacy_installed) =>
        /\ proc # "crashed"
        /\ pc \in {"TagsFallback", "Responded"} =>
              (outcome = "config_error" /\ calls = 0 /\ IsPrefixOfLength(tags, entities, 5))
        /\ pc = "Responded" => status = 200

\* the allow-listed spans of doc.ents, by position
WantedAt == {i \in 1..Len(doc_ents) : doc_ents[i].label \in wanted}
Surface(i) == Strip(doc_ents[i].text)
FirstAt(x) == Min({i \in WantedAt : Surface(i) = x})

\* C9: the entity list holds no string twice, holds exactly the trimmed
\* strings of the allow-listed spans, and is in the order of their first
\* occurrence
C9_EntitiesDistinctInOrder ==
    (pc \in {"EntitiesExtracted", "TagsRequested", "TagsParsed", "TagsFallback", "Responded"}) =>
        /\ NoDuplicates(entities)
        /\ {entities[k] : k \in 1..Len(entities)} = {Surface(i) : i \in WantedAt}
        /\ \A k, l \in 1..Len(entities) : k < l => FirstAt(entities[k]) < FirstAt(entities[l])

C9_Witness ==
    /\ pc = "Responded"
    /\ Len(doc_ents) = 8
    /\ Len(response.entities) = 6

StageEdges ==
    { <<"Idle", "Start">>, <<"Responded", "Start">>, <<"InvalidInput", "Start">>,
      <<"Start", "InvalidInput">>, <<"Start", "EntitiesExtracted">>,
      <<"EntitiesExtracted", "TagsRequested">>,
      <<"TagsRequested", "TagsParsed">>, <<"TagsRequested", "TagsFallback">>,
      <<"TagsParsed", "Responded">>, <<"TagsFallback", "Responded">> }

StageStep ==
    /\ pc' # pc => <<pc, pc'>> \in StageEdges
    /\ calls' > calls => (pc = "TagsRequested" /\ nlp_calls = 1 /\ pc' # "TagsRequested")

\* C10: a request goes Start, EntitiesExtracted, TagsRequested, then one of
\* TagsParsed and TagsFallback, then Responded; the completion service is
\* called after the entities are extracted and at most once, a failure
\* goes straight to the fallback, and every request reaches Responded or
\* InvalidInput
C10_StagesInOrder ==
    /\ [][StageStep]_vars
    /\ [](calls <= 1)
    /\ (pc = "Start") ~> (pc \in Terminal)

C10_Witness ==
    /\ pc = "Responded"
    /\ outcome = "api_error"
    /\ calls = 1
    /\ nlp_calls = 1

====
